---- MODULE Spec2Model ----
(***************************************************************************)
(* Crossdock simulation: the Scanner-to-Row aggregation pipeline of        *)
(* src/models/scanner.py with the Item, Row and Truck classes it uses.     *)
(*                                                                         *)
(* Probabilities are in units of 1/10000, times in centiseconds.  A call   *)
(* of random.random() is a draw from RandomDraws, a call of random.gauss   *)
(* is its mean plus a deviation from GaussDeviations.  datetime.now() is   *)
(* the token Now.                                                          *)
(***************************************************************************)
EXTENDS Integers, Sequences, FiniteSets, TLC

VARIABLES
    max_attempts,   \* Scanner.max_attempts
    buffers,        \* Scanner.buffers: truck_id -> (type key -> queue of items)
    item_logs,      \* Scanner.item_logs
    row_logs,       \* Scanner.row_logs
    rows,           \* Truck.rows of every truck, by truck_id
    raised,         \* the exception the last call ended with, or NoError
    passed,         \* number of items handed to process_batch so far
    last,           \* the last call made, with what it started from and returned
    strap_reach_limit, \* Truck.strap_reach_limit of every truck, by truck_id
    built_row,      \* a Row the caller has built and not added to a truck, or None
    threads,        \* the threads calling process_batch: position and locals of each
    overlapped,     \* has a thread run a statement while another was inside its call
    split,          \* a batch handed over in two calls: what is left of it, or None
    sc_pc,          \* scan_item: position of the call under way
    sc_item,        \* scan_item: its argument
    attempts,       \* scan_item: local attempts
    success,        \* scan_item: local success
    total_time,     \* scan_item: local total_time
    trials          \* scan_item: results of the _scan_once calls made so far

vars == <<max_attempts, buffers, item_logs, row_logs, rows, raised, passed,
          last, strap_reach_limit, built_row, threads, overlapped, split,
          sc_pc, sc_item, attempts, success, total_time, trials>>

scanner_vars == <<buffers, item_logs, row_logs, rows, raised, passed, last>>
scan_vars == <<sc_pc, sc_item, attempts, success, total_time, trials>>
caller_vars == <<strap_reach_limit, built_row, threads, overlapped, split>>

-----------------------------------------------------------------------------
\* Bounds of the model

\* items handed to process_batch over a whole run
MaxItems == 3
\* largest max_attempts a Scanner is constructed with
MaxAttempts == 3

\* items handed to process_batch when the caller adds rows too
MaxCallerItems == 2
\* largest row_id the caller gives a row
MaxRowId == 2
\* rows on a truck beyond which the caller adds none
MaxTruckRows == 2

\* longest item list the caller gives a Row
MaxRowLen == 4

\* rows the caller loads on a truck before it asks for the strap figures
MaxRows == 3
\* largest strap_reach_limit a truck is built with
MaxReach == 3

\* longest queue found in a buffer when an item is processed
MaxQueue == 4

\* items in the batch a thread hands to process_batch
MaxThreadItems == 2

-----------------------------------------------------------------------------
\* Values

\* Python's None, and an Optional value that is present
None == <<>>
Some(x) == <<x>>

AttributeError == "AttributeError"
IndexError == "IndexError"
NoError == "none"
KeyError == "KeyError"

Now == "now"

\* Scanner.__init__ defaults
ScannerName == "Scanner-01"
BaseSuccess == 9800
MeanTime == 280

\* the two trucks of main.py
TruckIds == {"TRK-001", "TRK-002"}
Door(truck_id) == IF truck_id = "TRK-001" THEN "DOOR-07" ELSE "DOOR-12"
ReachLimit(truck_id) == IF truck_id = "TRK-001" THEN 3 ELSE 2

\* the keys of a truck's buffer pair
BufferKeys == {"Pallet", "Car"}
EmptyBuffers == [k \in BufferKeys |-> <<>>]

\* Pallet(...) and Car(...), and ItemBase(..., item_type) built directly
ItemClasses ==
    {[cls |-> "Pallet", type |-> "PALLET"],
     [cls |-> "Car", type |-> "CAR"],
     [cls |-> "ItemBase", type |-> "Pallet"],
     [cls |-> "ItemBase", type |-> "Car"],
     [cls |-> "ItemBase", type |-> "BOX"]}

\* ItemBase.__init__: id is "<type>-<id_str>"; the two flags are drawn once
NewItem(c, id_str, bv, ld) ==
    [cls |-> c.cls, type |-> c.type, id |-> <<c.type, id_str>>,
     barcode_valid |-> bv, label_damaged |-> ld]

\* representatives of random.random(): below 0.12, below 0.588, below 0.98,
\* below 0.9954, and above all of them
RandomDraws == {500, 3000, 8000, 9900, 9990}

\* the flags of the items handed to process_batch
FeedFlags == {<<TRUE, FALSE>>}

\* random.gauss(mu, 0.5) - mu
GaussDeviations == {-300, 0, 50}

-----------------------------------------------------------------------------
\* Row

isinstance(i, cls) == i.cls = cls

Row(row_id, items) == [row_id |-> row_id, items |-> items, strap_needed |-> 1]

\* is_valid with any(...) where the code has all(...)
IsValidAny(row) ==
    \/ /\ Len(row.items) = 2
       /\ \E k \in 1..Len(row.items) : isinstance(row.items[k], "Pallet")
    \/ /\ Len(row.items) = 3
       /\ \E k \in 1..Len(row.items) : isinstance(row.items[k], "Car")

is_valid(row) ==
    \/ /\ Len(row.items) = 2
       /\ \A k \in 1..Len(row.items) : isinstance(row.items[k], "Pallet")
    \/ /\ Len(row.items) = 3
       /\ \A k \in 1..Len(row.items) : isinstance(row.items[k], "Car")

row_type(row) == IF is_valid(row) THEN row.items[1].type ELSE "Invalid"

-----------------------------------------------------------------------------
\* Scanner.scan_item

ScanOnceProb(item) ==
    IF ~item.barcode_valid THEN 1200
    ELSE IF item.label_damaged THEN (BaseSuccess * 6) \div 10
    ELSE BaseSuccess

\* u is the value random.random() returns
_scan_once(item, u) == u < ScanOnceProb(item)

Max(a, b) == IF a >= b THEN a ELSE b

\* scan_item without "and not success" in the while condition
ScanLoopCondNoStop(att, succ, maxa) == att < maxa

\* the while condition of scan_item
ScanLoopCond(att, succ, maxa) == att < maxa /\ ~succ

\* one iteration of the loop on the locals loc; dev and u are the two draws
ScanLoopBody(loc, item, dev, u) ==
    LET att == loc.attempts + 1
        mu == IF att = 1 THEN MeanTime ELSE 140
        t == Max(40, mu + dev)
    IN  [attempts |-> att,
         total_time |-> loc.total_time + t,
         success |-> _scan_once(item, u)]

ScanLocals0 == [attempts |-> 0, success |-> FALSE, total_time |-> 0]

\* the dict scan_item returns; times are already on the 0.01 grid
ScanReturn(loc) ==
    [success |-> loc.success, attempts |-> loc.attempts, time_s |-> loc.total_time]

RECURSIVE ScanLoop(_, _, _, _, _)
ScanLoop(loc, item, maxa, devs, us) ==
    IF ScanLoopCond(loc.attempts, loc.success, maxa)
    THEN ScanLoop(ScanLoopBody(loc, item, devs[loc.attempts + 1], us[loc.attempts + 1]),
                  item, maxa, devs, us)
    ELSE loc

\* devs and us: the draws the call would make, one per attempt
scan_item(item, maxa, devs, us) == ScanReturn(ScanLoop(ScanLocals0, item, maxa, devs, us))

\* u is the value random.random() returns
scan_door_in(u) == u < 9954

\* every dict scan_item can return for an item with these flags, by max_attempts
ScanResults ==
    [m \in 1..MaxAttempts |->
        [f \in BOOLEAN \X BOOLEAN |->
            {scan_item([barcode_valid |-> f[1], label_damaged |-> f[2]], m, devs, us) :
                devs \in [1..m -> {0}], us \in [1..m -> RandomDraws]}]]

\* every value scan_door_in can return
DoorResults == {scan_door_in(u) : u \in RandomDraws}

-----------------------------------------------------------------------------
\* Scanner: buffers and rows.  st is the state a call works on:
\* [buffers, rows, item_logs, row_logs, raised]

Raise(st, e) == [st EXCEPT !.raised = e]

\* _ensure_buffers that creates nothing
EnsureNothing(st, truck_id) == st

_ensure_buffers(st, truck_id) ==
    IF truck_id \notin DOMAIN st.buffers
    THEN [st EXCEPT !.buffers =
            [x \in DOMAIN st.buffers \cup {truck_id} |->
                IF x = truck_id THEN EmptyBuffers ELSE st.buffers[x]]]
    ELSE st

\* a threshold of 3 for both types
NeededThree(item_type) == 3

\* the threshold of a buffer
Needed(item_type) == IF item_type = "Pallet" THEN 2 ELSE 3

\* a row id counted from 0
NextRowIdFromZero(truck_rows) == Len(truck_rows)

\* the id a new row of the truck gets
NextRowId(truck_rows) == Len(truck_rows) + 1

\* add_row with rows.insert(0, row) where the code has rows.append(row)
AddRowFirst(st, truck_id, row) == [st EXCEPT !.rows[truck_id] = <<row>> \o @]

\* Truck.add_row
add_row(st, truck_id, row) == [st EXCEPT !.rows[truck_id] = Append(@, row)]

\* the items taken with buf.pop() where the code has buf.pop(0)
PopBack(buf, needed) ==
    [items |-> [k \in 1..needed |-> buf[Len(buf) + 1 - k]],
     rest |-> SubSeq(buf, 1, Len(buf) - needed)]

\* [buf.pop(0) for _ in range(needed)]: the items taken and what buf keeps
PopFront(buf, needed) ==
    [items |-> SubSeq(buf, 1, needed), rest |-> SubSeq(buf, needed + 1, Len(buf))]

FlushRowLog(truck_id, row, items_for_row) ==
    [timestamp |-> Now, scanner |-> ScannerName, truck_id |-> truck_id,
     door |-> Door(truck_id), row_type |-> row_type(row),
     items_count |-> Len(items_for_row)]

\* returns the state and the row created, or None
_flush_if_full(st, truck_id, item_type) ==
    IF truck_id \notin DOMAIN st.buffers \/ item_type \notin DOMAIN st.buffers[truck_id]
    THEN [st |-> Raise(st, KeyError), created |-> None]
    ELSE
    LET buf == st.buffers[truck_id][item_type]
        needed == Needed(item_type)
    IN  IF Len(buf) >= needed
        THEN LET items_for_row == PopFront(buf, needed).items
                 rest == PopFront(buf, needed).rest
                 row == Row(NextRowId(st.rows[truck_id]), items_for_row)
                 s1 == [st EXCEPT !.buffers[truck_id][item_type] = rest]
                 s2 == add_row(s1, truck_id, row)
                 s3 == [s2 EXCEPT !.row_logs =
                            Append(@, FlushRowLog(truck_id, row, items_for_row))]
             IN  [st |-> s3, created |-> Some(row)]
        ELSE [st |-> st, created |-> None]

\* the door scanned whatever the barcode scan returned
DoorInAlways(res, door) == door

\* step 2 of process_batch: the door is scanned only after a successful scan
DoorInOk(res, door) == IF res.success THEN door ELSE FALSE

\* every door-confirmed item pushed, whatever its type
BufferedAnyType(item, door_in_ok) == door_in_ok

\* step 3 of process_batch: is the item pushed to a buffer
Buffered(item, door_in_ok) == door_in_ok /\ item.type \in {"Pallet", "Car"}

\* the log entry with row_created_id left at None
ItemLogNoRow(truck_id, item, res, door_in_ok, door_out_ok, new_row_id) ==
    [scanner |-> ScannerName, truck_id |-> truck_id, door |-> Door(truck_id),
     item_id |-> item.id, item_type |-> item.type,
     barcode_valid |-> item.barcode_valid, label_damaged |-> item.label_damaged,
     scan_success |-> res.success, attempts |-> res.attempts,
     scan_time_s |-> res.time_s, door_in_ok |-> door_in_ok,
     door_out_ok |-> door_out_ok, row_created_id |-> None]

ItemLog(truck_id, item, res, door_in_ok, door_out_ok, new_row_id) ==
    [scanner |-> ScannerName, truck_id |-> truck_id, door |-> Door(truck_id),
     item_id |-> item.id, item_type |-> item.type,
     barcode_valid |-> item.barcode_valid, label_damaged |-> item.label_damaged,
     scan_success |-> res.success, attempts |-> res.attempts,
     scan_time_s |-> res.time_s, door_in_ok |-> door_in_ok,
     door_out_ok |-> door_out_ok, row_created_id |-> new_row_id]

\* the log entry written only inside "if door_in_ok"
LogItemIfDoorOk(st, entry) ==
    IF entry.door_in_ok THEN [st EXCEPT !.item_logs = Append(@, entry)] ELSE st

\* step 4 of process_batch
LogItem(st, entry) == [st EXCEPT !.item_logs = Append(@, entry)]

\* the body of the for loop of process_batch, for one item; res is what
\* scan_item returned and door what scan_door_in returns when it is called
ProcessItem(st, truck_id, item, res, door) ==
    LET door_in_ok == DoorInOk(res, door)
        door_out_ok == None
    IN  IF Buffered(item, door_in_ok)
        THEN IF truck_id \notin DOMAIN st.buffers
                \/ item.type \notin DOMAIN st.buffers[truck_id]
             THEN Raise(st, KeyError)
             ELSE LET s1 == [st EXCEPT !.buffers[truck_id][item.type] = Append(@, item)]
                      f == _flush_if_full(s1, truck_id, item.type)
                      new_row_id == IF f.created # None
                                    THEN Some(f.created[1].row_id) ELSE None
                  IN  IF f.st.raised # NoError THEN f.st
                      ELSE LogItem(f.st, ItemLog(truck_id, item, res, door_in_ok,
                                                 door_out_ok, new_row_id))
        ELSE LogItem(st, ItemLog(truck_id, item, res, door_in_ok, door_out_ok, None))

\* the for loop of process_batch from item k on; an exception ends the call
RECURSIVE ProcessItems(_, _, _, _, _)
ProcessItems(st, truck_id, items, outs, k) ==
    IF k > Len(items) \/ st.raised # NoError THEN st
    ELSE ProcessItems(ProcessItem(st, truck_id, items[k], outs[k].res, outs[k].door),
                      truck_id, items, outs, k + 1)

\* process_batch that starts every call with empty buffers for the truck
ProcessBatchFresh(st, items, truck_id, outs) ==
    ProcessItems([st EXCEPT !.buffers =
                    [x \in DOMAIN st.buffers \cup {truck_id} |->
                        IF x = truck_id THEN EmptyBuffers ELSE st.buffers[x]]],
                 truck_id, items, outs, 1)

process_batch(st, items, truck_id, outs) ==
    ProcessItems(_ensure_buffers(st, truck_id), truck_id, items, outs, 1)

ForcedRowLog(truck_id, row_id, row, buf) ==
    [timestamp |-> Now, scanner |-> ScannerName, truck_id |-> truck_id,
     door |-> Door(truck_id), row_id |-> row_id, row_type |-> row_type(row),
     items_count |-> Len(buf), note |-> "forced close; may be invalid"]

\* the forced close without buf.clear()
ForceTypeNoClear(st, truck_id, type) ==
    IF st.raised # NoError THEN st
    ELSE IF truck_id \notin DOMAIN st.buffers THEN Raise(st, KeyError)
    ELSE
    LET buf == st.buffers[truck_id][type]
    IN  IF Len(buf) > 0
        THEN LET row_id == NextRowId(st.rows[truck_id])
                 row == Row(row_id, buf)
                 s1 == add_row(st, truck_id, row)
             IN  [s1 EXCEPT !.row_logs =
                        Append(@, ForcedRowLog(truck_id, row_id, row, buf))]
        ELSE st

\* the body of the for loop of close_truck, for one type
ForceType(st, truck_id, type) ==
    IF st.raised # NoError THEN st
    ELSE IF truck_id \notin DOMAIN st.buffers THEN Raise(st, KeyError)
    ELSE
    LET buf == st.buffers[truck_id][type]
    IN  IF Len(buf) > 0
        THEN LET row_id == NextRowId(st.rows[truck_id])
                 row == Row(row_id, buf)
                 s1 == add_row(st, truck_id, row)
                 s2 == [s1 EXCEPT !.row_logs =
                            Append(@, ForcedRowLog(truck_id, row_id, row, buf))]
             IN  [s2 EXCEPT !.buffers[truck_id][type] = <<>>]
        ELSE st

\* the default close that clears the Pallet buffer only
DropPalletOnly(st, truck_id) ==
    IF truck_id \notin DOMAIN st.buffers THEN Raise(st, KeyError)
    ELSE [st EXCEPT !.buffers[truck_id]["Pallet"] = <<>>]

\* close_truck(truck, finalize_incomplete_rows=False) after _ensure_buffers
DropBuffers(st, truck_id) ==
    IF truck_id \notin DOMAIN st.buffers THEN Raise(st, KeyError)
    ELSE [st EXCEPT !.buffers[truck_id] = [k \in BufferKeys |-> <<>>]]

close_truck(st, truck_id, finalize_incomplete_rows) ==
    LET s0 == _ensure_buffers(st, truck_id)
    IN  IF ~finalize_incomplete_rows
        THEN DropBuffers(s0, truck_id)
        ELSE ForceType(ForceType(s0, truck_id, "Pallet"), truck_id, "Car")

-----------------------------------------------------------------------------
\* The Scanner driven by a caller: whole calls of process_batch and close_truck

State == [buffers |-> buffers, rows |-> rows, item_logs |-> item_logs,
          row_logs |-> row_logs, raised |-> NoError]

\* what a caller can hand to process_batch for one item, with what the scan
\* and the door can answer for it
\* the items a caller hands to process_batch
FeedClasses == {c \in ItemClasses : c.type \in {"PALLET", "Pallet", "Car"}}

\* the max_attempts of the Scanner under test
FeedAttempts == {1}

Feeds(m) ==
    UNION {{[c |-> c, bv |-> f[1], ld |-> f[2], res |-> r, door |-> d] :
                c \in FeedClasses, r \in ScanResults[m][f], d \in DoorResults} :
           f \in FeedFlags}

\* every answer for the types the Scanner buffers, the successful one for the others
FeedCases(m) ==
    {x \in Feeds(m) : x.c.type \in BufferKeys \/ (x.res.success /\ x.door)}

\* the record of a call; for close_truck, also what the call started from
NoCall ==
    [op |-> "init", truck |-> "", finalize |-> FALSE,
     pre_pallet |-> 0, pre_car |-> 0, again |-> FALSE, ret |-> None]

BatchCall(truck_id) == [NoCall EXCEPT !.op = "process_batch", !.truck = truck_id]

CloseCall(truck_id, fin) ==
    [op |-> "close_truck", truck |-> truck_id, finalize |-> fin,
     pre_pallet |-> IF truck_id \in DOMAIN buffers
                    THEN Len(buffers[truck_id]["Pallet"]) ELSE 0,
     pre_car |-> IF truck_id \in DOMAIN buffers
                 THEN Len(buffers[truck_id]["Car"]) ELSE 0,
     again |-> last.op = "close_truck" /\ last.truck = truck_id,
     ret |-> None]

Commit(st) ==
    /\ buffers' = st.buffers
    /\ rows' = st.rows
    /\ item_logs' = st.item_logs
    /\ row_logs' = st.row_logs
    /\ raised' = st.raised

Init ==
    /\ max_attempts \in FeedAttempts
    /\ buffers = <<>>
    /\ item_logs = <<>>
    /\ row_logs = <<>>
    /\ rows = [t \in TruckIds |-> <<>>]
    /\ raised = NoError
    /\ passed = 0
    /\ last = NoCall
    /\ strap_reach_limit = [t \in TruckIds |-> ReachLimit(t)]
    /\ built_row = None
    /\ threads = <<>>
    /\ overlapped = FALSE
    /\ split = None
    /\ sc_pc = "idle"
    /\ sc_item = None
    /\ attempts = 0
    /\ success = FALSE
    /\ total_time = 0
    /\ trials = <<>>

\* a call of process_batch while fewer than limit items have been handed over
ProcessBatchWithin(limit) ==
    \E truck_id \in TruckIds, n \in 0..(limit - passed) :
      \E feed \in [1..n -> FeedCases(max_attempts)] :
        LET items == [k \in 1..n |->
                        NewItem(feed[k].c, passed + k, feed[k].bv, feed[k].ld)]
        IN  /\ Commit(process_batch(State, items, truck_id, feed))
            /\ passed' = passed + n
            /\ last' = BatchCall(truck_id)
            /\ UNCHANGED <<max_attempts, scan_vars, caller_vars>>

ProcessBatch == ProcessBatchWithin(MaxItems)

CloseTruck ==
    \E truck_id \in TruckIds, finalize_incomplete_rows \in BOOLEAN :
        /\ Commit(close_truck(State, truck_id, finalize_incomplete_rows))
        /\ last' = CloseCall(truck_id, finalize_incomplete_rows)
        /\ UNCHANGED <<max_attempts, passed, scan_vars, caller_vars>>

Next == ProcessBatch \/ CloseTruck

Spec == Init /\ [][Next]_vars

-----------------------------------------------------------------------------
\* One call of scan_item, statement by statement: max_attempts and the item
\* are the caller's, every pass of the while loop is one step

ScanItems ==
    {NewItem(c, 1, f[1], f[2]) : c \in ItemClasses, f \in BOOLEAN \X BOOLEAN}

InitScan ==
    /\ max_attempts \in 1..MaxAttempts
    /\ buffers = <<>>
    /\ item_logs = <<>>
    /\ row_logs = <<>>
    /\ rows = [t \in TruckIds |-> <<>>]
    /\ raised = NoError
    /\ passed = 0
    /\ last = NoCall
    /\ strap_reach_limit = [t \in TruckIds |-> ReachLimit(t)]
    /\ built_row = None
    /\ threads = <<>>
    /\ overlapped = FALSE
    /\ split = None
    /\ sc_pc = "loop"
    /\ sc_item \in ScanItems
    /\ attempts = ScanLocals0.attempts
    /\ success = ScanLocals0.success
    /\ total_time = ScanLocals0.total_time
    /\ trials = <<>>

ScanLocals == [attempts |-> attempts, success |-> success, total_time |-> total_time]

\* one pass of the loop
ScanTrial ==
    /\ sc_pc = "loop"
    /\ ScanLoopCond(attempts, success, max_attempts)
    /\ \E dev \in GaussDeviations, u \in RandomDraws :
         LET loc == ScanLoopBody(ScanLocals, sc_item, dev, u)
         IN  /\ attempts' = loc.attempts
             /\ success' = loc.success
             /\ total_time' = loc.total_time
             /\ trials' = Append(trials, loc.success)
    /\ UNCHANGED <<max_attempts, scanner_vars, caller_vars, sc_pc, sc_item>>

\* the loop is left and the dict is returned
ScanDone ==
    /\ sc_pc = "loop"
    /\ ~ScanLoopCond(attempts, success, max_attempts)
    /\ sc_pc' = "returned"
    /\ UNCHANGED <<max_attempts, scanner_vars, caller_vars, sc_item, attempts, success,
                   total_time, trials>>

NextScan == ScanTrial \/ ScanDone

\* the call runs to completion: nothing else is scheduled
SpecScan == InitScan /\ [][NextScan]_vars /\ WF_vars(NextScan)

-----------------------------------------------------------------------------
\* The Scanner and a caller that also adds rows of its own to the trucks, as
\* main.py does

\* the items of the rows the caller builds: Pallet("<r>-0<k>") and Car("<r>-0<k>")
RowItem(cls, r, k) ==
    NewItem(CHOOSE c \in ItemClasses : c.cls = cls, 100 * r + k, TRUE, FALSE)

\* Row(row_id, [Pallet, Pallet]), the row1 of main.py
PalletRow(row_id) == Row(row_id, <<RowItem("Pallet", row_id, 1), RowItem("Pallet", row_id, 2)>>)

RowIdsOf(truck_rows) == {truck_rows[i].row_id : i \in 1..Len(truck_rows)}

\* truck.add_row(Row(row_id, ...)) with an id no row of the truck has yet
CallerAddRow ==
    \E truck_id \in TruckIds, row_id \in 1..MaxRowId :
        /\ Len(rows[truck_id]) < MaxTruckRows
        /\ row_id \notin RowIdsOf(rows[truck_id])
        /\ Commit(add_row(State, truck_id, PalletRow(row_id)))
        /\ last' = [NoCall EXCEPT !.op = "add_row", !.truck = truck_id]
        /\ UNCHANGED <<max_attempts, passed, scan_vars, caller_vars>>

NextCaller == ProcessBatchWithin(MaxCallerItems) \/ CloseTruck \/ CallerAddRow

SpecCaller == Init /\ [][NextCaller]_vars

-----------------------------------------------------------------------------
\* Scanner.metrics; percentages, times and averages are counted in hundredths

RECURSIVE SumOf(_, _)
\* sum(x[field] for x in logs)
SumOf(logs, field) ==
    IF logs = <<>> THEN 0 ELSE logs[1][field] + SumOf(Tail(logs), field)

\* sum(1 for x in logs if x[field])
CountOf(logs, field) == Cardinality({i \in 1..Len(logs) : logs[i][field]})

\* round(a / n, 2) in hundredths, a given in hundredths: to nearest, ties to even
Round2(a, n) ==
    LET q == a \div n
        r == a % n
    IN  IF 2 * r < n THEN q
        ELSE IF 2 * r > n THEN q + 1
        ELSE IF q % 2 = 0 THEN q ELSE q + 1

\* the record metrics returns on an empty item_logs
ZeroMetrics ==
    [scanner |-> ScannerName, items_processed |-> 0, scan_success_pct |-> 0,
     door_scan_ok_pct |-> 0, avg_scan_time_s |-> 0, avg_attempts |-> 0]

\* the record metrics returns on a non-empty item_logs
Kpis(logs) ==
    LET n == Len(logs)
        succ == CountOf(logs, "scan_success")
        door_ok == CountOf(logs, "door_in_ok")
    IN  [scanner |-> ScannerName,
         items_processed |-> n,
         scan_success_pct |-> Round2(10000 * succ, n),
         door_scan_ok_pct |-> Round2(10000 * door_ok, n),
         avg_scan_time_s |-> Round2(SumOf(logs, "scan_time_s"), n),
         avg_attempts |-> Round2(100 * SumOf(logs, "attempts"), n)]

\* metrics computed over the successfully scanned items only
MetricsOfSuccesses(logs) ==
    LET ok == SelectSeq(logs, LAMBDA x : x.scan_success)
    IN  IF ok = <<>> THEN ZeroMetrics ELSE Kpis(ok)

metrics(logs) == IF logs = <<>> THEN ZeroMetrics ELSE Kpis(logs)

\* a call of scanner.metrics()
Metrics ==
    /\ Commit(State)
    /\ last' = [NoCall EXCEPT !.op = "metrics", !.ret = Some(metrics(item_logs))]
    /\ UNCHANGED <<max_attempts, passed, scan_vars, caller_vars>>

NextMetrics == ProcessBatchWithin(MaxCallerItems) \/ CloseTruck \/ Metrics

SpecMetrics == Init /\ [][NextMetrics]_vars

-----------------------------------------------------------------------------
\* One Row built by the caller from Pallet(...) and Car(...) objects, and the
\* calls of its two methods

\* every Row(row_id, items) with up to MaxRowLen items
CallerRows ==
    {Row(row_id, [k \in 1..n |-> RowItem(f[k], row_id, k)]) :
        row_id \in 1..MaxRowId, n \in 0..MaxRowLen, f \in [1..MaxRowLen -> {"Pallet", "Car"}]}

InitRow ==
    /\ max_attempts \in FeedAttempts
    /\ buffers = <<>>
    /\ item_logs = <<>>
    /\ row_logs = <<>>
    /\ rows = [t \in TruckIds |-> <<>>]
    /\ raised = NoError
    /\ passed = 0
    /\ last = NoCall
    /\ strap_reach_limit = [t \in TruckIds |-> ReachLimit(t)]
    /\ built_row \in {Some(r) : r \in CallerRows}
    /\ threads = <<>>
    /\ overlapped = FALSE
    /\ split = None
    /\ sc_pc = "idle"
    /\ sc_item = None
    /\ attempts = 0
    /\ success = FALSE
    /\ total_time = 0
    /\ trials = <<>>

\* a call of row.is_valid()
RowIsValid ==
    /\ last' = [NoCall EXCEPT !.op = "is_valid", !.ret = Some(is_valid(built_row[1]))]
    /\ UNCHANGED <<max_attempts, buffers, item_logs, row_logs, rows, raised, passed,
                   scan_vars, caller_vars>>

\* a call of row.row_type()
RowRowType ==
    /\ last' = [NoCall EXCEPT !.op = "row_type", !.ret = Some(row_type(built_row[1]))]
    /\ UNCHANGED <<max_attempts, buffers, item_logs, row_logs, rows, raised, passed,
                   scan_vars, caller_vars>>

NextRow == RowIsValid \/ RowRowType

SpecRow == InitRow /\ [][NextRow]_vars

-----------------------------------------------------------------------------
\* Truck: the strap figures of a truck the caller has loaded with rows

\* what a call hands back: the value returned, or the exception raised
Returned(x) == [raised |-> NoError, ret |-> Some(x)]
Raised(e) == [raised |-> e, ret |-> None]

total_rows(truck_rows) == Len(truck_rows)

valid_rows(truck_rows) == SelectSeq(truck_rows, is_valid)

\* is_row_reachable with < where the code has <=
IsRowReachableStrict(limit, row_index) == row_index < limit

is_row_reachable(limit, row_index) == row_index <= limit

\* row.required_straps(): class Row defines no such attribute
required_straps(row) == Raised(AttributeError)

RECURSIVE StrapsSum(_, _)
\* sum(row.required_straps() for row in rows), left to right
StrapsSum(truck_rows, acc) ==
    IF truck_rows = <<>> THEN Returned(acc)
    ELSE LET r == required_straps(truck_rows[1])
         IN  IF r.raised # NoError THEN r
             ELSE StrapsSum(Tail(truck_rows), acc + r.ret[1])

straps_required(truck_rows) == StrapsSum(truck_rows, 0)

RECURSIVE AppliedLoop(_, _, _, _)
\* the for loop of straps_applied from position i on
AppliedLoop(truck_rows, limit, i, applied) ==
    IF i > Len(truck_rows) THEN applied
    ELSE AppliedLoop(truck_rows, limit, i + 1,
                     IF is_valid(truck_rows[i]) /\ is_row_reachable(limit, i)
                     THEN applied + 1 ELSE applied)

straps_applied(truck_rows, limit) == AppliedLoop(truck_rows, limit, 1, 0)

\* the record rows_status builds for the row at position i
RowStatus(truck_id, row, limit, i) ==
    LET status == IF ~is_valid(row) THEN "invalid"
                  ELSE IF is_row_reachable(limit, i) THEN "applied"
                  ELSE "not_possible_reach"
        reason == IF ~is_valid(row) THEN "row does not meet rule (2 Pallets or 3 Cars)"
                  ELSE IF is_row_reachable(limit, i) THEN ""
                  ELSE "beyond strap reach limit"
    IN  [truck_id |-> truck_id, door |-> Door(truck_id), row_id |-> row.row_id,
         row_type |-> row_type(row),
         strap_required |-> IF is_valid(row) THEN 1 ELSE 0,
         strap_status |-> status, reason |-> reason]

rows_status(truck_id, truck_rows, limit) ==
    [i \in 1..Len(truck_rows) |-> RowStatus(truck_id, truck_rows[i], limit, i)]

summary(truck_id, truck_rows, limit) ==
    LET total == total_rows(truck_rows)
        valid == Len(valid_rows(truck_rows))
        req == straps_required(truck_rows)
    IN  IF req.raised # NoError THEN req
        ELSE LET required == req.ret[1]
                 applied == straps_applied(truck_rows, limit)
                 unreachable == Max(0, required - applied)
             IN  Returned([truck_id |-> truck_id, door |-> Door(truck_id),
                           total_rows |-> total, valid_rows |-> valid,
                           straps_required |-> required, straps_applied |-> applied,
                           straps_unreachable |-> unreachable,
                           safety_index_pct |-> IF required > 0
                                                THEN Round2(10000 * applied, required)
                                                ELSE 0])

\* the item classes of the rows main.py builds: two pallets, three cars, a mixed pair
RowShapes == {<<"Pallet", "Pallet">>, <<"Car", "Car", "Car">>, <<"Pallet", "Car">>}

ShapedRow(row_id, shape) ==
    Row(row_id, [k \in 1..Len(shape) |-> RowItem(shape[k], row_id, k)])

\* Truck(truck_id, door, strap_reach_limit) with any limit from 0 on
InitTruck ==
    /\ max_attempts \in FeedAttempts
    /\ buffers = <<>>
    /\ item_logs = <<>>
    /\ row_logs = <<>>
    /\ rows = [t \in TruckIds |-> <<>>]
    /\ raised = NoError
    /\ passed = 0
    /\ last = NoCall
    /\ strap_reach_limit \in [TruckIds -> 0..MaxReach]
    /\ built_row = None
    /\ threads = <<>>
    /\ overlapped = FALSE
    /\ split = None
    /\ sc_pc = "idle"
    /\ sc_item = None
    /\ attempts = 0
    /\ success = FALSE
    /\ total_time = 0
    /\ trials = <<>>

TruckCall(op, truck_id, ret) == [NoCall EXCEPT !.op = op, !.truck = truck_id, !.ret = ret]

\* truck.add_row(Row(n, ...)), rows numbered as they are added; one truck is
\* loaded in a run
TruckAddRow ==
    \E truck_id \in TruckIds, shape \in RowShapes :
        /\ \A t \in TruckIds \ {truck_id} : rows[t] = <<>>
        /\ Len(rows[truck_id]) < MaxRows
        /\ Commit(add_row(State, truck_id, ShapedRow(Len(rows[truck_id]) + 1, shape)))
        /\ last' = TruckCall("add_row", truck_id, None)
        /\ UNCHANGED <<max_attempts, passed, scan_vars, caller_vars>>

\* a call of truck.straps_required()
StrapsRequired ==
    \E truck_id \in TruckIds :
        LET r == straps_required(rows[truck_id])
        IN  /\ raised' = r.raised
            /\ last' = TruckCall("straps_required", truck_id, r.ret)
            /\ UNCHANGED <<max_attempts, buffers, item_logs, row_logs, rows, passed,
                           scan_vars, caller_vars>>

\* a call of truck.straps_applied()
StrapsApplied ==
    \E truck_id \in TruckIds :
        /\ raised' = NoError
        /\ last' = TruckCall("straps_applied", truck_id,
                             Some(straps_applied(rows[truck_id], strap_reach_limit[truck_id])))
        /\ UNCHANGED <<max_attempts, buffers, item_logs, row_logs, rows, passed,
                       scan_vars, caller_vars>>

\* a call of truck.rows_status()
RowsStatus ==
    \E truck_id \in TruckIds :
        /\ raised' = NoError
        /\ last' = TruckCall("rows_status", truck_id,
                             Some(rows_status(truck_id, rows[truck_id],
                                              strap_reach_limit[truck_id])))
        /\ UNCHANGED <<max_attempts, buffers, item_logs, row_logs, rows, passed,
                       scan_vars, caller_vars>>

\* a call of truck.summary()
Summary ==
    \E truck_id \in TruckIds :
        LET r == summary(truck_id, rows[truck_id], strap_reach_limit[truck_id])
        IN  /\ raised' = r.raised
            /\ last' = TruckCall("summary", truck_id, r.ret)
            /\ UNCHANGED <<max_attempts, buffers, item_logs, row_logs, rows, passed,
                           scan_vars, caller_vars>>

NextTruck == TruckAddRow \/ StrapsRequired \/ StrapsApplied \/ RowsStatus \/ Summary

SpecTruck == InitTruck /\ [][NextTruck]_vars

-----------------------------------------------------------------------------
\* process_batch, one item a call, on a Scanner whose buffers (a public
\* attribute) hold queues of any length when the call is made

\* n items of one buffer key, oldest first
HeldQueue(key, n) ==
    [k \in 1..n |->
        NewItem([cls |-> "ItemBase", type |-> key], 900 + k, TRUE, FALSE)]

InitFlush ==
    /\ max_attempts \in FeedAttempts
    /\ buffers \in {<<>>} \cup
          {[t \in {truck_id} |-> [key \in BufferKeys |->
                                    HeldQueue(key, IF key = "Pallet" THEN p ELSE c)]] :
              truck_id \in TruckIds, p \in 0..MaxQueue, c \in 0..MaxQueue}
    /\ item_logs = <<>>
    /\ row_logs = <<>>
    /\ rows = [t \in TruckIds |-> <<>>]
    /\ raised = NoError
    /\ passed = 0
    /\ last = NoCall
    /\ strap_reach_limit = [t \in TruckIds |-> ReachLimit(t)]
    /\ built_row = None
    /\ threads = <<>>
    /\ overlapped = FALSE
    /\ split = None
    /\ sc_pc = "idle"
    /\ sc_item = None
    /\ attempts = 0
    /\ success = FALSE
    /\ total_time = 0
    /\ trials = <<>>

\* process_batch([item], truck)
ProcessOneItem ==
    \E truck_id \in TruckIds, feed \in FeedCases(max_attempts) :
        /\ passed < MaxCallerItems
        /\ Commit(process_batch(State,
                                <<NewItem(feed.c, passed + 1, feed.bv, feed.ld)>>,
                                truck_id, <<feed>>))
        /\ passed' = passed + 1
        /\ last' = BatchCall(truck_id)
        /\ UNCHANGED <<max_attempts, scan_vars, caller_vars>>

NextFlush == ProcessOneItem

SpecFlush == InitFlush /\ [][NextFlush]_vars

-----------------------------------------------------------------------------
\* Two threads call process_batch on the same Scanner and the same Truck and
\* are interleaved statement by statement.  The Scanner has served the truck
\* before, so that self.buffers[truck_id] exists.

Threads == {1, 2}

ThreadTruck == "TRK-001"

\* the batches a thread may hand over: ItemBase objects typed "Pallet" or "Car"
ThreadBatches(th) ==
    {[k \in 1..n |-> NewItem([cls |-> "ItemBase", type |-> f[k]], 10 * th + k, TRUE, FALSE)] :
        n \in 1..MaxThreadItems, f \in [1..MaxThreadItems -> BufferKeys]}

\* the locals of a process_batch call at the top of its for loop
ThreadLocals(items, k) ==
    [pc |-> "for", items |-> items, k |-> k, res |-> None, door_in_ok |-> FALSE,
     new_row_id |-> None, items_for_row |-> <<>>, row_id |-> 0, created |-> None]

\* a thread that has its batch and has not called yet
IdleThreads(th) ==
    {[ThreadLocals(items, 1) EXCEPT !.pc = "idle"] : items \in ThreadBatches(th)}

InitThreads ==
    /\ max_attempts \in FeedAttempts
    /\ buffers = [t \in {ThreadTruck} |-> EmptyBuffers]
    /\ item_logs = <<>>
    /\ row_logs = <<>>
    /\ rows = [t \in TruckIds |-> <<>>]
    /\ raised = NoError
    /\ passed = 0
    /\ last = NoCall
    /\ strap_reach_limit = [t \in TruckIds |-> ReachLimit(t)]
    /\ built_row = None
    /\ threads \in {[th \in Threads |-> IF th = 1 THEN a ELSE b] :
                      a \in IdleThreads(1), b \in IdleThreads(2)}
    /\ overlapped = FALSE
    /\ split = None
    /\ sc_pc = "idle"
    /\ sc_item = None
    /\ attempts = 0
    /\ success = FALSE
    /\ total_time = 0
    /\ trials = <<>>

\* is the thread inside its call
Inside(loc) == loc.pc \notin {"idle", "done", "raised"}

\* thread th has run one statement and its locals are now loc
Ran(th, loc) ==
    /\ threads' = [threads EXCEPT ![th] = loc]
    /\ overlapped' = (overlapped \/ \E o \in Threads \ {th} : Inside(threads[o]))
    /\ UNCHANGED <<max_attempts, passed, last, strap_reach_limit, built_row, split,
                   scan_vars>>

\* the thread is at statement pc of its call
At(th, pc) == threads[th].pc = pc

\* the item of the current pass of the for loop
ThItem(th) == threads[th].items[threads[th].k]

\* the call starts: self._ensure_buffers(truck)
ThCall(th) ==
    /\ At(th, "idle")
    /\ buffers' = _ensure_buffers(State, ThreadTruck).buffers
    /\ Ran(th, ThreadLocals(threads[th].items, 1))
    /\ UNCHANGED <<rows, item_logs, row_logs, raised>>

\* for item in items
ThFor(th) ==
    /\ At(th, "for")
    /\ Ran(th, [threads[th] EXCEPT !.pc = IF threads[th].k > Len(threads[th].items)
                                          THEN "done" ELSE "scan"])
    /\ UNCHANGED <<buffers, rows, item_logs, row_logs, raised>>

\* res = self.scan_item(item)
ThScan(th) ==
    /\ At(th, "scan")
    /\ \E res \in ScanResults[max_attempts][<<ThItem(th).barcode_valid,
                                              ThItem(th).label_damaged>>] :
          Ran(th, [threads[th] EXCEPT !.pc = "door", !.res = Some(res)])
    /\ UNCHANGED <<buffers, rows, item_logs, row_logs, raised>>

\* step 2, and new_row_id = None
ThDoor(th) ==
    /\ At(th, "door")
    /\ \E door \in DoorResults :
          Ran(th, [threads[th] EXCEPT !.pc = "push",
                                      !.door_in_ok = DoorInOk(threads[th].res[1], door)])
    /\ UNCHANGED <<buffers, rows, item_logs, row_logs, raised>>

\* step 3 up to self.buffers[truck.truck_id][item.type].append(item)
ThPush(th) ==
    /\ At(th, "push")
    /\ IF Buffered(ThItem(th), threads[th].door_in_ok)
       THEN /\ buffers' = [buffers EXCEPT
                              ![ThreadTruck][ThItem(th).type] = Append(@, ThItem(th))]
            /\ Ran(th, [threads[th] EXCEPT !.pc = "flush_if"])
       ELSE /\ UNCHANGED buffers
            /\ Ran(th, [threads[th] EXCEPT !.pc = "log"])
    /\ UNCHANGED <<rows, item_logs, row_logs, raised>>

\* _flush_if_full: if len(buf) >= needed
ThFlushIf(th) ==
    /\ At(th, "flush_if")
    /\ Ran(th, [threads[th] EXCEPT
                  !.pc = IF Len(buffers[ThreadTruck][ThItem(th).type])
                              >= Needed(ThItem(th).type)
                         THEN "pop" ELSE "log"])
    /\ UNCHANGED <<buffers, rows, item_logs, row_logs, raised>>

\* items_for_row = [buf.pop(0) for _ in range(needed)]; pop(0) on a list that
\* has run empty raises IndexError, the items popped before it are gone
ThPop(th) ==
    /\ At(th, "pop")
    /\ LET type == ThItem(th).type
           buf == buffers[ThreadTruck][type]
       IN  IF Len(buf) >= Needed(type)
           THEN /\ buffers' = [buffers EXCEPT
                                  ![ThreadTruck][type] = PopFront(buf, Needed(type)).rest]
                /\ Ran(th, [threads[th] EXCEPT
                              !.pc = "row_id",
                              !.items_for_row = PopFront(buf, Needed(type)).items])
                /\ UNCHANGED raised
           ELSE /\ buffers' = [buffers EXCEPT ![ThreadTruck][type] = <<>>]
                /\ raised' = IndexError
                /\ Ran(th, [threads[th] EXCEPT !.pc = "raised"])
    /\ UNCHANGED <<rows, item_logs, row_logs>>

\* row_id = len(truck.rows) + 1; row = Row(row_id, items_for_row)
ThRowId(th) ==
    /\ At(th, "row_id")
    /\ LET row_id == NextRowId(rows[ThreadTruck])
       IN  Ran(th, [threads[th] EXCEPT
                      !.pc = "add_row", !.row_id = row_id,
                      !.created = Some(Row(row_id, threads[th].items_for_row))])
    /\ UNCHANGED <<buffers, rows, item_logs, row_logs, raised>>

\* truck.add_row(row)
ThAddRow(th) ==
    /\ At(th, "add_row")
    /\ rows' = add_row(State, ThreadTruck, threads[th].created[1]).rows
    /\ Ran(th, [threads[th] EXCEPT !.pc = "row_log"])
    /\ UNCHANGED <<buffers, item_logs, row_logs, raised>>

\* self.row_logs.append({...}); return row; new_row_id = created.row_id
ThRowLog(th) ==
    /\ At(th, "row_log")
    /\ row_logs' = Append(row_logs, FlushRowLog(ThreadTruck, threads[th].created[1],
                                                threads[th].items_for_row))
    /\ Ran(th, [threads[th] EXCEPT
                  !.pc = "log", !.new_row_id = Some(threads[th].created[1].row_id)])
    /\ UNCHANGED <<buffers, rows, item_logs, raised>>

\* step 4: self.item_logs.append({...}), and on to the next item
ThLog(th) ==
    /\ At(th, "log")
    /\ item_logs' = LogItem(State, ItemLog(ThreadTruck, ThItem(th), threads[th].res[1],
                                           threads[th].door_in_ok, None,
                                           threads[th].new_row_id)).item_logs
    /\ Ran(th, ThreadLocals(threads[th].items, threads[th].k + 1))
    /\ UNCHANGED <<buffers, rows, row_logs, raised>>

NextThreads ==
    \E th \in Threads :
        \/ ThCall(th) \/ ThFor(th) \/ ThScan(th) \/ ThDoor(th) \/ ThPush(th)
        \/ ThFlushIf(th) \/ ThPop(th) \/ ThRowId(th) \/ ThAddRow(th) \/ ThRowLog(th)
        \/ ThLog(th)

SpecThreads == InitThreads /\ [][NextThreads]_vars

-----------------------------------------------------------------------------
\* A batch handed to process_batch in two calls, xs and then ys, next to what
\* one call with xs followed by ys leaves on the same scan and door outcomes

\* the items of a feed, numbered after the from items handed over before
SplitItems(feed, from) ==
    [k \in 1..Len(feed) |-> NewItem(feed[k].c, from + k, feed[k].bv, feed[k].ld)]

\* no second call is owed
SplitIdle == IF split = None THEN TRUE ELSE split[1].done

\* process_batch(xs, truck), with ys kept for the next call
SplitFirst ==
    \E truck_id \in TruckIds, n \in 0..(MaxItems - passed) :
      \E m \in 0..n, feed \in [1..n -> FeedCases(max_attempts)] :
        LET items == SplitItems(feed, passed)
        IN  /\ SplitIdle
            /\ Commit(process_batch(State, SubSeq(items, 1, m), truck_id,
                                    SubSeq(feed, 1, m)))
            /\ split' = Some([truck |-> truck_id, first |-> m,
                              ys |-> SubSeq(items, m + 1, n),
                              outs |-> SubSeq(feed, m + 1, n),
                              joint |-> process_batch(State, items, truck_id, feed),
                              done |-> FALSE])
            /\ passed' = passed + m
            /\ last' = BatchCall(truck_id)
            /\ UNCHANGED <<max_attempts, scan_vars, strap_reach_limit, built_row,
                           threads, overlapped>>

\* process_batch(ys, truck)
SplitSecond ==
    /\ ~SplitIdle
    /\ Commit(process_batch(State, split[1].ys, split[1].truck, split[1].outs))
    /\ split' = Some([split[1] EXCEPT !.done = TRUE])
    /\ passed' = passed + Len(split[1].ys)
    /\ last' = BatchCall(split[1].truck)
    /\ UNCHANGED <<max_attempts, scan_vars, strap_reach_limit, built_row,
                   threads, overlapped>>

\* close_truck between two batches
SplitClose ==
    \E truck_id \in TruckIds, finalize_incomplete_rows \in BOOLEAN :
        /\ SplitIdle
        /\ Commit(close_truck(State, truck_id, finalize_incomplete_rows))
        /\ split' = None
        /\ last' = CloseCall(truck_id, finalize_incomplete_rows)
        /\ UNCHANGED <<max_attempts, passed, scan_vars, strap_reach_limit, built_row,
                       threads, overlapped>>

NextSplit == SplitFirst \/ SplitSecond \/ SplitClose

SpecSplit == Init /\ [][NextSplit]_vars

-----------------------------------------------------------------------------
\* Properties

ForcedNote == "forced close; may be invalid"

\* the items a truck's buffers hold, the items of a truck's rows
BufferedItems(t) ==
    IF t \in DOMAIN buffers
    THEN UNION {{buffers[t][key][k] : k \in 1..Len(buffers[t][key])} : key \in BufferKeys}
    ELSE {}
RowItems(t) ==
    UNION {{rows[t][i].items[k] : k \in 1..Len(rows[t][i].items)} : i \in 1..Len(rows[t])}
PlacedItems == UNION {BufferedItems(t) \cup RowItems(t) : t \in TruckIds}

\* the queue a truck holds for a key, empty when the Scanner has not seen the truck
Queue(t, key) == IF t \in DOMAIN buffers THEN buffers[t][key] ELSE <<>>

\* what a call appended to a sequence
Added(old, new) == SubSeq(new, Len(old) + 1, Len(new))
IsPrefix(old, new) == Len(old) <= Len(new) /\ SubSeq(new, 1, Len(old)) = old

\* C1: after every call, every truck's Pallet buffer holds at most 1 item and
\* its Car buffer at most 2 (threshold - 1, thresholds 2 and 3)
C1_BuffersBelowThreshold ==
    \A t \in DOMAIN buffers :
        /\ Len(buffers[t]["Pallet"]) <= 1
        /\ Len(buffers[t]["Car"]) <= 2

\* a third item waits in the Pallet buffer after the first two were flushed
C1_Witness ==
    \E t \in DOMAIN buffers :
        /\ Len(rows[t]) = 1
        /\ Len(rows[t][1].items) = 2
        /\ Len(buffers[t]["Pallet"]) = 1

\* C2: on a truck with no rows and nothing buffered, a batch with n
\* door-confirmed PALLET items and m door-confirmed CAR items leaves n div 2
\* rows of PALLET items and m div 3 rows of CAR items on the truck, and the
\* row the 2nd PALLET item completes is a PALLET row with row_id 1
C2_RowsPerConfirmedItems ==
    [][\A t \in TruckIds :
        (/\ last'.op = "process_batch"
         /\ last'.truck = t
         /\ rows[t] = <<>>
         /\ Queue(t, "Pallet") = <<>>
         /\ Queue(t, "Car") = <<>>)
        => LET new == Added(item_logs, item_logs')
               n == Cardinality({k \in 1..Len(new) :
                        new[k].item_type = "PALLET" /\ new[k].door_in_ok})
               m == Cardinality({k \in 1..Len(new) :
                        new[k].item_type = "CAR" /\ new[k].door_in_ok})
               of(type) == {i \in 1..Len(rows'[t]) :
                        \A k \in 1..Len(rows'[t][i].items) :
                            rows'[t][i].items[k].type = type}
           IN  /\ Cardinality(of("PALLET")) = n \div 2
               /\ Cardinality(of("CAR")) = m \div 3
               /\ (n >= 2 /\ m = 0) =>
                     /\ Len(rows'[t]) >= 1
                     /\ rows'[t][1].row_id = 1
                     /\ Len(rows'[t][1].items) = 2
                     /\ 1 \in of("PALLET")]_vars

\* C3: close_truck(truck, False) leaves truck.rows, row_logs and item_logs as
\* they were and both buffers of the truck empty
C3_DefaultCloseDrops ==
    [][\A t \in TruckIds :
        (last'.op = "close_truck" /\ last'.truck = t /\ ~last'.finalize)
        => /\ rows' = rows
           /\ row_logs' = row_logs
           /\ item_logs' = item_logs
           /\ raised' = NoError
           /\ t \in DOMAIN buffers'
           /\ buffers'[t]["Pallet"] = <<>>
           /\ buffers'[t]["Car"] = <<>>]_vars

\* a default close has dropped 1 buffered Pallet item and 2 buffered Car items
C3_Witness ==
    /\ last.op = "close_truck"
    /\ ~last.finalize
    /\ last.pre_pallet = 1
    /\ last.pre_car = 2
    /\ rows[last.truck] = <<>>
    /\ BufferedItems(last.truck) = {}

\* C4: close_truck(truck, True) appends one row per non-empty buffer, Pallet
\* before Car, holding the whole queue in order, with one row_logs entry each
\* that carries the forced-close note; it appends nothing for an empty buffer
\* and leaves both buffers empty; from 1 Pallet and 2 Car items it appends two
\* invalid rows of sizes 1 and 2
C4_ForcedCloseRows ==
    [][\A t \in TruckIds :
        (last'.op = "close_truck" /\ last'.truck = t /\ last'.finalize)
        => LET P == Queue(t, "Pallet")
               C == Queue(t, "Car")
               expect == (IF P # <<>> THEN <<P>> ELSE <<>>)
                            \o (IF C # <<>> THEN <<C>> ELSE <<>>)
               new_rows == Added(rows[t], rows'[t])
               new_logs == Added(row_logs, row_logs')
           IN  /\ raised' = NoError
               /\ IsPrefix(rows[t], rows'[t])
               /\ IsPrefix(row_logs, row_logs')
               /\ Len(new_rows) = Len(expect)
               /\ \A k \in 1..Len(new_rows) : new_rows[k].items = expect[k]
               /\ Len(new_logs) = Len(expect)
               /\ \A k \in 1..Len(new_logs) :
                    /\ "note" \in DOMAIN new_logs[k]
                    /\ new_logs[k].note = ForcedNote
                    /\ new_logs[k].truck_id = t
                    /\ new_logs[k].items_count = Len(expect[k])
               /\ t \in DOMAIN buffers'
               /\ buffers'[t]["Pallet"] = <<>>
               /\ buffers'[t]["Car"] = <<>>
               /\ (Len(P) = 1 /\ Len(C) = 2) =>
                     /\ Len(new_rows) = 2
                     /\ Len(new_rows[1].items) = 1
                     /\ Len(new_rows[2].items) = 2
                     /\ ~is_valid(new_rows[1])
                     /\ ~is_valid(new_rows[2])]_vars

\* a forced close has turned 1 buffered Pallet item and 2 buffered Car items
\* into two rows
C4_Witness ==
    /\ last.op = "close_truck"
    /\ last.finalize
    /\ last.pre_pallet = 1
    /\ last.pre_car = 2
    /\ Len(rows[last.truck]) = 2
    /\ Len(row_logs) = 2

\* C5: close_truck on a truck the Scanner has never seen raises nothing and
\* creates no row and no log entry; a second close_truck right after a first
\* one on the same truck changes neither the rows, row_logs nor the buffers
C5_CloseIdempotent ==
    [][/\ (last'.op = "close_truck" /\ last'.truck \notin DOMAIN buffers)
          => /\ raised' = NoError
             /\ rows' = rows
             /\ row_logs' = row_logs
             /\ item_logs' = item_logs
       /\ (/\ last.op = "close_truck"
           /\ last'.op = "close_truck"
           /\ last'.truck = last.truck)
          => /\ raised' = NoError
             /\ rows' = rows
             /\ row_logs' = row_logs
             /\ buffers' = buffers]_vars

\* a close has followed a forced close that created a row
C5_Witness ==
    /\ last.op = "close_truck"
    /\ last.again
    /\ Len(rows[last.truck]) >= 1
    /\ \E k \in 1..Len(row_logs) :
         "note" \in DOMAIN row_logs[k] /\ row_logs[k].truck_id = last.truck

\* C6: item_logs holds one entry per item handed to process_batch, in the
\* order the items were handed over, and door_out_ok is None in every entry
C6_OneLogPerItem ==
    /\ Len(item_logs) = passed
    /\ \A k \in 1..Len(item_logs) :
         /\ item_logs[k].item_id[2] = k
         /\ item_logs[k].item_id[1] = item_logs[k].item_type
         /\ item_logs[k].door_out_ok = None

\* three items are logged: a failed scan, a failed door and a confirmed item
C6_Witness ==
    /\ Len(item_logs) >= 3
    /\ \E k \in 1..Len(item_logs) : ~item_logs[k].scan_success
    /\ \E k \in 1..Len(item_logs) :
         item_logs[k].scan_success /\ ~item_logs[k].door_in_ok
    /\ \E k \in 1..Len(item_logs) : item_logs[k].door_in_ok

\* C7: door_in_ok implies scan_success in every entry; an item whose scan
\* failed is in no buffer and no row and its entry names no row
C7_DoorAfterScan ==
    \A k \in 1..Len(item_logs) :
        /\ item_logs[k].door_in_ok => item_logs[k].scan_success
        /\ ~item_logs[k].scan_success =>
              /\ item_logs[k].row_created_id = None
              /\ \A i \in PlacedItems : i.id # item_logs[k].item_id

\* an item of a buffered type failed its scan, and another one was buffered
C7_Witness ==
    /\ \E k \in 1..Len(item_logs) :
         ~item_logs[k].scan_success /\ item_logs[k].item_type \in BufferKeys
    /\ PlacedItems # {}

C9_ScanItemBounded ==
    /\ [](/\ Len(trials) = attempts
          /\ attempts <= max_attempts
          /\ \A k \in 1..(Len(trials) - 1) : ~trials[k]
          /\ sc_pc = "returned" =>
                /\ 1 <= attempts
                /\ success = trials[attempts]
                /\ ~success => attempts = max_attempts)
    /\ <>(sc_pc = "returned")

\* a scan succeeded on a retry, before max_attempts was used up
C9_Witness ==
    /\ sc_pc = "returned"
    /\ success
    /\ attempts = 2
    /\ max_attempts >= 3

\* C10: the row at position i of a truck has row_id i
C10_RowIdIsPosition ==
    \A t \in TruckIds : \A i \in 1..Len(rows[t]) : rows[t][i].row_id = i

\* a truck holds a row from a threshold flush and then a row from a forced close
C10_Witness ==
    \E t \in TruckIds :
        /\ Len(rows[t]) = 2
        /\ Len(rows[t][1].items) = 2
        /\ Len(rows[t][2].items) = 1
        /\ \E k \in 1..Len(row_logs) :
             "note" \in DOMAIN row_logs[k] /\ row_logs[k].truck_id = t

\* C11: no two rows of a truck share a row_id, also when the caller adds rows
\* under ids of its own between the Scanner's
C11_RowIdsUnique ==
    \A t \in TruckIds : \A i, j \in 1..Len(rows[t]) :
        i # j => rows[t][i].row_id # rows[t][j].row_id

\* C12: all row_logs entries carry the same keys, whether a threshold flush or
\* a forced close appended them, and all item_logs entries carry the same keys
C12_StableFieldSets ==
    /\ \A i, j \in 1..Len(row_logs) : DOMAIN row_logs[i] = DOMAIN row_logs[j]
    /\ \A i, j \in 1..Len(item_logs) : DOMAIN item_logs[i] = DOMAIN item_logs[j]

\* C13: metrics() changes neither item_logs, row_logs, the buffers nor a truck;
\* on an empty item_logs it returns the all-zero record, otherwise
\* items_processed = len(item_logs), which is every item ever handed to
\* process_batch, since close_truck leaves item_logs alone
C13_MetricsPureRead ==
    [][/\ last'.op = "metrics" =>
            /\ UNCHANGED <<buffers, rows, item_logs, row_logs, raised>>
            /\ last'.ret[1].items_processed = Len(item_logs)
            /\ last'.ret[1].items_processed = passed
            /\ item_logs = <<>> =>
                  /\ last'.ret[1].scan_success_pct = 0
                  /\ last'.ret[1].door_scan_ok_pct = 0
                  /\ last'.ret[1].avg_scan_time_s = 0
                  /\ last'.ret[1].avg_attempts = 0
       /\ last'.op = "close_truck" => item_logs' = item_logs]_vars

\* metrics() answers 2 after a forced close that made a row, one scan having failed
C13_Witness ==
    /\ last.op = "metrics"
    /\ last.ret[1].items_processed = 2
    /\ last.ret[1].scan_success_pct = 5000
    /\ \E i \in 1..Len(row_logs) : "note" \in DOMAIN row_logs[i]

\* the items of the built row all have this type
AllOfType(type) ==
    \A k \in 1..Len(built_row[1].items) : built_row[1].items[k].type = type

\* 2 items, all PALLET, or 3 items, all CAR
TwoPalletsOrThreeCars ==
    \/ Len(built_row[1].items) = 2 /\ AllOfType("PALLET")
    \/ Len(built_row[1].items) = 3 /\ AllOfType("CAR")

\* C14: for every Row of 0 to 4 PALLET and CAR items, is_valid() is true iff
\* the row has 2 items, all PALLET, or 3 items, all CAR; row_type() returns
\* the items' common type when valid and "Invalid" otherwise
C14_RowValidity ==
    /\ last.op = "is_valid" => last.ret[1] = TwoPalletsOrThreeCars
    /\ last.op = "row_type" =>
          last.ret[1] = IF AllOfType("PALLET") /\ TwoPalletsOrThreeCars THEN "PALLET"
                        ELSE IF TwoPalletsOrThreeCars THEN "CAR"
                        ELSE "Invalid"

\* row_type() answered "CAR" for a row of three cars
C14_Witness ==
    /\ last.op = "row_type"
    /\ last.ret = Some("CAR")
    /\ Len(built_row[1].items) = 3

\* the positions of the valid rows of truck t
ValidPositions(t) == {i \in 1..Len(rows[t]) : is_valid(rows[t][i])}

\* C15: straps_required() returns the number of valid rows of the truck,
\* whatever rows it holds
C15_StrapsRequiredCountsValid ==
    last.op = "straps_required" =>
        /\ raised = NoError
        /\ last.ret = Some(Cardinality(ValidPositions(last.truck)))

\* C16: summary() returns straps_applied <= straps_required,
\* straps_unreachable = straps_required - straps_applied and
\* valid_rows = straps_required; with strap_reach_limit 2 and 3 valid rows it
\* returns straps_applied 2 and straps_unreachable 1
C16_SummaryFigures ==
    last.op = "summary" =>
        /\ raised = NoError
        /\ last.ret[1].straps_applied <= last.ret[1].straps_required
        /\ last.ret[1].straps_unreachable =
              last.ret[1].straps_required - last.ret[1].straps_applied
        /\ last.ret[1].valid_rows = last.ret[1].straps_required
        /\ (strap_reach_limit[last.truck] = 2
              /\ Cardinality(ValidPositions(last.truck)) = 3) =>
                 /\ last.ret[1].straps_applied = 2
                 /\ last.ret[1].straps_unreachable = 1

\* C17: straps_applied() is the number of valid rows at positions up to
\* strap_reach_limit, hence at most strap_reach_limit, and it is the number of
\* rows_status() records with strap_status "applied"
C17_StrapsAppliedReachable ==
    last.op = "straps_applied" =>
        LET t == last.truck
            status == rows_status(t, rows[t], strap_reach_limit[t])
        IN  /\ last.ret[1] =
                  Cardinality({i \in ValidPositions(t) : i <= strap_reach_limit[t]})
            /\ last.ret[1] <= strap_reach_limit[t]
            /\ last.ret[1] =
                  Cardinality({i \in 1..Len(status) : status[i].strap_status = "applied"})

\* straps_applied() answered 2 on a truck of limit 2 holding three valid rows
C17_Witness ==
    /\ last.op = "straps_applied"
    /\ strap_reach_limit[last.truck] = 2
    /\ ValidPositions(last.truck) = {1, 2, 3}
    /\ last.ret = Some(2)

\* C18: every row a process_batch call appends to a truck is valid, its items
\* have one type, and its row_logs entry records that type, never "Invalid"
C18_FlushedRowsValid ==
    [][last'.op = "process_batch" =>
          LET made == Added(rows[last'.truck], rows'[last'.truck])
              logged == Added(row_logs, row_logs')
          IN  /\ Len(logged) = Len(made)
              /\ \A k \in 1..Len(made) :
                    /\ is_valid(made[k])
                    /\ \A i \in 1..Len(made[k].items) :
                          made[k].items[i].type = made[k].items[1].type
                    /\ logged[k].row_type # "Invalid"
                    /\ logged[k].row_type = made[k].items[1].type]_vars

\* the entries of logs that name a created row
WithRow(logs) == SelectSeq(logs, LAMBDA x : x.row_created_id # None)

\* C19: row_created_id is non-null exactly in the entries of the items whose
\* processing appended a row, and is then that row's row_id; a non-null
\* row_created_id comes with door_in_ok
C19_RowCreatedId ==
    [][last'.op = "process_batch" =>
          LET t == last'.truck
              made == Added(rows[t], rows'[t])
              named == WithRow(Added(item_logs, item_logs'))
          IN  /\ Len(named) = Len(made)
              /\ \A k \in 1..Len(named) :
                    /\ named[k].row_created_id = Some(made[k].row_id)
                    /\ made[k].items[Len(made[k].items)].id = named[k].item_id
                    /\ named[k].door_in_ok]_vars

\* an item's entry names row 2, made when that item filled the buffer
C19_Witness ==
    /\ last.op = "process_batch"
    /\ Len(rows[last.truck]) = 2
    /\ item_logs # <<>>
    /\ item_logs[Len(item_logs)].row_created_id = Some(2)
    /\ item_logs[Len(item_logs)].truck_id = last.truck

\* C20: processing one item appends at most one row to the truck and at most
\* one entry to row_logs; a flush takes exactly threshold items from the front
\* of the buffer and leaves the others in their order
C20_OneFlushPerItem ==
    [][last'.op = "process_batch" /\ Len(item_logs') = Len(item_logs) + 1 =>
          LET t == last'.truck
              made == Added(rows[t], rows'[t])
              entry == item_logs'[Len(item_logs')]
          IN  /\ Len(made) <= 1
              /\ Len(row_logs') <= Len(row_logs) + 1
              /\ \A u \in TruckIds \ {t} : rows'[u] = rows[u]
              /\ made # <<>> =>
                    LET key == entry.item_type
                        taken == made[1].items
                        left == buffers'[t][key]
                        all == taken \o left
                    IN  /\ Len(taken) = IF key = "Pallet" THEN 2 ELSE 3
                        /\ all # <<>>
                        /\ all[Len(all)].id = entry.item_id
                        /\ SubSeq(all, 1, Len(all) - 1) = Queue(t, key)
                        /\ \A other \in BufferKeys \ {key} :
                              buffers'[t][other] = Queue(t, other)]_vars

\* one item made one row of the two oldest pallets and two pallets stay queued
C20_Witness ==
    /\ last.op = "process_batch"
    /\ passed = 1
    /\ Len(rows[last.truck]) = 1
    /\ Len(rows[last.truck][1].items) = 2
    /\ Len(Queue(last.truck, "Pallet")) = 2

\* C21: item_logs, row_logs and every truck's rows only grow at the end: over
\* every process_batch, close_truck and metrics call, each of them before the
\* call is a prefix of itself after the call
C21_AppendOnly ==
    [][/\ IsPrefix(item_logs, item_logs')
       /\ IsPrefix(row_logs, row_logs')
       /\ \A t \in TruckIds : IsPrefix(rows[t], rows'[t])]_vars

\* a second forced close has appended a second row and a second row_logs entry
\* behind the first ones, with two items logged
C21_Witness ==
    /\ last.op = "close_truck"
    /\ Len(rows[last.truck]) = 2
    /\ Len(row_logs) = 2
    /\ Len(item_logs) = 2

\* C22: as long as no thread has run a statement while another was inside its
\* process_batch call, every row of the truck has its position as row_id, so
\* no two rows share a row_id
C22_AtomicCallsNumberRows ==
    ~overlapped =>
        /\ \A i \in 1..Len(rows[ThreadTruck]) : rows[ThreadTruck][i].row_id = i
        /\ \A i, j \in 1..Len(rows[ThreadTruck]) :
              i # j => rows[ThreadTruck][i].row_id # rows[ThreadTruck][j].row_id

\* two interleaved process_batch calls have left two rows with one row_id
C22_Witness ==
    /\ overlapped
    /\ \E i, j \in 1..Len(rows[ThreadTruck]) :
          i # j /\ rows[ThreadTruck][i].row_id = rows[ThreadTruck][j].row_id

\* C23: process_batch(xs, truck) followed by process_batch(ys, truck) leaves
\* the rows, buffers, item_logs and row_logs that one process_batch of xs
\* followed by ys leaves on the same outcomes; a process_batch call leaves the
\* buffers and rows of every other truck as they were
C23_SplitBatchEquivalent ==
    [][/\ (~SplitIdle /\ split' # None /\ split'[1].done) =>
             /\ buffers' = split[1].joint.buffers
             /\ rows' = split[1].joint.rows
             /\ item_logs' = split[1].joint.item_logs
             /\ row_logs' = split[1].joint.row_logs
             /\ raised' = split[1].joint.raised
       /\ last'.op = "process_batch" =>
             \A u \in TruckIds \ {last'.truck} :
                /\ rows'[u] = rows[u]
                /\ u \in DOMAIN buffers' <=> u \in DOMAIN buffers
                /\ u \in DOMAIN buffers => buffers'[u] = buffers[u]]_vars

\* the second call has made a row of its own item and one the first call buffered,
\* while the other truck holds a buffered item
C23_Witness ==
    /\ split # None
    /\ split[1].done
    /\ split[1].first >= 1
    /\ split[1].ys # <<>>
    /\ \E i \in 1..Len(rows[split[1].truck]) :
          LET r == rows[split[1].truck][i]
          IN  /\ Len(r.items) = 2
              /\ r.items[2].id = split[1].ys[1].id
    /\ \E u \in TruckIds \ {split[1].truck} : BufferedItems(u) # {}

====
